---- MODULE Spec2Model ----
(***************************************************************************)
(* Model of runtime/src/iavl.rs: a leaf-based AVL tree (values live only   *)
(* in Leaf nodes, Inner nodes carry a boundary key), its digest pass and   *)
(* the IAVL handle that keeps the root behind Arc<RwLock<Option<Box<..>>>>.*)
(***************************************************************************)
EXTENDS Integers, Sequences, FiniteSets, TLC

(* ------------------------------------------------------------------ *)
(* Bounds of the model                                                  *)
(* ------------------------------------------------------------------ *)
MaxInserts == 4

Keys == {1, 2, 3}

NativeLoaderId == 0

BuiltinLamports == 5000

Names == {"b"}

\* AccountSharedData values a caller passes to IAVL::insert
Accounts == {[lamports |-> 0, owner |-> 1, data |-> ""]}

\* owners: &[Pubkey] slices passed to account_matches_owners
OwnerLists == {<<1>>, <<1, NativeLoaderId>>}

(* ------------------------------------------------------------------ *)
(* Digests: [u8; 32].  Sha3-256 is modelled as an injective constructor *)
(* whose results differ from the all-zero array.                        *)
(* ------------------------------------------------------------------ *)
Zero32 == <<"zero">>

Sha3(h_left, h_right) == <<"sha3", h_left, h_right>>

\* Option<[u8; 32]>
NoHash == <<>>

SomeHash(h) == <<h>>

(* ------------------------------------------------------------------ *)
(* enum Node<K, V> and Option<Box<Node<K, V>>>                          *)
(* ------------------------------------------------------------------ *)
None == [kind |-> "None"]

\* the value a panicking call (unreachable!(), Option::unwrap on None) stands for
Panic == [kind |-> "Panic"]

\* new_leaf that stamps the version after the handle's
new_leaf_next(key, value, ver) ==
  [kind |-> "Leaf", key |-> key, value |-> value, version |-> ver + 1, hash |-> NoHash]

new_leaf(key, value, ver) ==
  [kind |-> "Leaf", key |-> key, value |-> value, version |-> ver, hash |-> NoHash]

\* new_inner with the two children exchanged
new_inner_swapped(key, left, right, ver) ==
  [kind |-> "Inner", left |-> right, right |-> left, key |-> key,
   hash |-> NoHash, height |-> 1, version |-> ver]

new_inner(key, left, right, ver) ==
  [kind |-> "Inner", left |-> left, right |-> right, key |-> key,
   hash |-> NoHash, height |-> 1, version |-> ver]

height(root) ==
  IF root.kind = "Inner" THEN root.height ELSE 0

get_height(root) ==
  IF root.kind = "Inner" THEN root.height ELSE 0

Max(a, b) == IF a >= b THEN a ELSE b

\* update_height that also drops the cached hash of the node it touches
update_height_clearing(root) ==
  IF root.kind = "Inner"
    THEN [root EXCEPT !.height = Max(height(root.left), height(root.right)) + 1,
                      !.hash = NoHash]
    ELSE root

\* height is a u8; a tree of n entries stays far below 255 levels
update_height(root) ==
  IF root.kind = "Inner"
    THEN [root EXCEPT !.height = Max(height(root.left), height(root.right)) + 1]
    ELSE root

\* height_difference with the operands exchanged
height_difference_reversed(root) ==
  IF root.kind = "Inner"
    THEN get_height(root.right) - get_height(root.left)
    ELSE 0

height_difference(root) ==
  IF root.kind = "Inner"
    THEN get_height(root.left) - get_height(root.right)
    ELSE 0

(* ------------------------------------------------------------------ *)
(* Rotations                                                            *)
(* ------------------------------------------------------------------ *)
\* rotate_right that does not hand the right subtree of the lifted node over
rotate_right_detached(root) ==
  IF root.kind # "Inner" THEN Panic
  ELSE IF root.left.kind = "None" THEN Panic
  ELSE LET r == root.left IN
    IF r.kind # "Inner" THEN Panic
    ELSE LET root1 == update_height([root EXCEPT !.left = None])
         IN  update_height([r EXCEPT !.right = root1])

rotate_right(root) ==
  IF root.kind # "Inner" THEN Panic
  ELSE IF root.left.kind = "None" THEN Panic
  ELSE LET r == root.left IN
    IF r.kind # "Inner" THEN Panic
    ELSE LET root1 == update_height([root EXCEPT !.left = r.right])
         IN  update_height([r EXCEPT !.right = root1])

\* rotate_left that leaves the cached height of the demoted node as it was
rotate_left_stale(root) ==
  IF root.kind # "Inner" THEN Panic
  ELSE IF root.right.kind = "None" THEN Panic
  ELSE LET r == root.right IN
    IF r.kind # "Inner" THEN Panic
    ELSE LET root1 == [root EXCEPT !.right = r.left]
         IN  update_height([r EXCEPT !.left = root1])

rotate_left(root) ==
  IF root.kind # "Inner" THEN Panic
  ELSE IF root.right.kind = "None" THEN Panic
  ELSE LET r == root.right IN
    IF r.kind # "Inner" THEN Panic
    ELSE LET root1 == update_height([root EXCEPT !.right = r.left])
         IN  update_height([r EXCEPT !.left = root1])

rotate_right_left(root) ==
  IF root.kind # "Inner" THEN Panic
  ELSE IF root.right.kind = "None" THEN Panic
  ELSE LET r == root.right IN
    IF r.kind # "Inner" THEN Panic
    ELSE IF get_height(r.left) > get_height(r.right)
      THEN LET rotated_root == rotate_right(r) IN
           IF rotated_root.kind = "Panic" THEN Panic
           ELSE rotate_left(update_height([root EXCEPT !.right = rotated_root]))
      ELSE rotate_left(root)

rotate_left_right(root) ==
  IF root.kind # "Inner" THEN Panic
  ELSE IF root.left.kind = "None" THEN Panic
  ELSE LET l == root.left IN
    IF l.kind # "Inner" THEN Panic
    ELSE IF get_height(l.right) > get_height(l.left)
      THEN LET rotated_root == rotate_left(l) IN
           IF rotated_root.kind = "Panic" THEN Panic
           ELSE rotate_right(update_height([root EXCEPT !.left = rotated_root]))
      ELSE rotate_right(root)

\* balance that never rotates
balance_never(root) == root

\* balance that already rotates at a height difference of 1
balance_eager(root) ==
  LET height_diff == height_difference(root) IN
  IF height_diff = 0 THEN root
  ELSE IF height_diff > 0 THEN rotate_left_right(root)
  ELSE rotate_right_left(root)

balance(root) ==
  LET height_diff == height_difference(root) IN
  IF height_diff >= -1 /\ height_diff <= 1 THEN root
  ELSE IF height_diff = 2 THEN rotate_left_right(root)
  ELSE IF height_diff = -2 THEN rotate_right_left(root)
  ELSE Panic

(* ------------------------------------------------------------------ *)
(* Node::insert / Node::insert_in_child                                 *)
(* ------------------------------------------------------------------ *)
\* insert that overwrites the value of a Leaf with an equal key in place
RECURSIVE insert_overwrite(_, _, _, _)
insert_overwrite(root, new_key, new_value, ver) ==
  IF root.kind = "Inner"
    THEN LET old == IF new_key < root.key THEN root.left ELSE root.right
             child == IF old.kind = "None"
                        THEN new_leaf(new_key, new_value, ver)
                        ELSE insert_overwrite(old, new_key, new_value, ver)
         IN IF child.kind = "Panic" THEN Panic
            ELSE IF new_key < root.key
              THEN balance(update_height([root EXCEPT !.left = child]))
              ELSE balance(update_height([root EXCEPT !.right = child]))
    ELSE IF new_key < root.key
      THEN balance(update_height(
             new_inner(root.key, new_leaf(new_key, new_value, ver), root, ver)))
    ELSE IF new_key = root.key
      THEN [root EXCEPT !.value = new_value]
      ELSE balance(update_height(
             new_inner(new_key, root, new_leaf(new_key, new_value, ver), ver)))

\* insert that hangs the Leaf of an equal key to the left of the Leaf it meets
RECURSIVE insert_newest_first(_, _, _, _)
insert_newest_first(root, new_key, new_value, ver) ==
  IF root.kind = "Inner"
    THEN LET old == IF new_key < root.key THEN root.left ELSE root.right
             child == IF old.kind = "None"
                        THEN new_leaf(new_key, new_value, ver)
                        ELSE insert_newest_first(old, new_key, new_value, ver)
         IN IF child.kind = "Panic" THEN Panic
            ELSE IF new_key < root.key
              THEN balance(update_height([root EXCEPT !.left = child]))
              ELSE balance(update_height([root EXCEPT !.right = child]))
    ELSE IF new_key <= root.key
      THEN balance(update_height(
             new_inner(root.key, new_leaf(new_key, new_value, ver), root, ver)))
      ELSE balance(update_height(
             new_inner(new_key, root, new_leaf(new_key, new_value, ver), ver)))

RECURSIVE insert(_, _, _, _)
insert_in_child(root, new_key, new_value, ver) ==
  IF root.kind = "None"
    THEN new_leaf(new_key, new_value, ver)
    ELSE insert(root, new_key, new_value, ver)

insert(root, new_key, new_value, ver) ==
  IF root.kind = "Inner"
    THEN LET child == IF new_key < root.key
                        THEN insert_in_child(root.left, new_key, new_value, ver)
                        ELSE insert_in_child(root.right, new_key, new_value, ver)
         IN IF child.kind = "Panic" THEN Panic
            ELSE IF new_key < root.key
              THEN balance(update_height([root EXCEPT !.left = child]))
              ELSE balance(update_height([root EXCEPT !.right = child]))
    ELSE IF new_key < root.key
      THEN balance(update_height(
             new_inner(root.key, new_leaf(new_key, new_value, ver), root, ver)))
      ELSE balance(update_height(
             new_inner(new_key, root, new_leaf(new_key, new_value, ver), ver)))

(* ------------------------------------------------------------------ *)
(* Node::update_hash: returns the node with its caches set and the hash *)
(* ------------------------------------------------------------------ *)
\* update_hash that trusts a cached hash instead of revisiting the node
RECURSIVE update_hash_cached(_)
update_hash_cached(root) ==
  IF root.hash # NoHash
    THEN [node |-> root, h |-> root.hash[1]]
  ELSE IF root.kind = "Leaf"
    THEN LET h == Zero32 IN
         [node |-> [root EXCEPT !.hash = SomeHash(h)], h |-> h]
    ELSE LET l == IF root.left.kind = "None"
                    THEN [node |-> None, h |-> Zero32]
                    ELSE update_hash_cached(root.left)
             r == IF root.right.kind = "None"
                    THEN [node |-> None, h |-> Zero32]
                    ELSE update_hash_cached(root.right)
             h == Sha3(l.h, r.h)
         IN [node |-> [root EXCEPT !.left = l.node, !.right = r.node,
                                   !.hash = SomeHash(h)],
             h |-> h]

RECURSIVE update_hash(_)
update_hash(root) ==
  IF root.kind = "Leaf"
    THEN LET h == Zero32 IN
         [node |-> [root EXCEPT !.hash = SomeHash(h)], h |-> h]
    ELSE LET l == IF root.left.kind = "None"
                    THEN [node |-> None, h |-> Zero32]
                    ELSE update_hash(root.left)
             r == IF root.right.kind = "None"
                    THEN [node |-> None, h |-> Zero32]
                    ELSE update_hash(root.right)
             h == Sha3(l.h, r.h)
         IN [node |-> [root EXCEPT !.left = l.node, !.right = r.node,
                                   !.hash = SomeHash(h)],
             h |-> h]

(* ------------------------------------------------------------------ *)
(* Node::search: Option<(&K, &V)>                                       *)
(* ------------------------------------------------------------------ *)
NotFound == <<>>

\* search that goes left on a key equal to the boundary key
RECURSIVE search_le(_, _)
search_le(search_key, root) ==
  IF root.kind = "Leaf"
    THEN IF root.key = search_key THEN <<root.key, root.value>> ELSE NotFound
    ELSE IF search_key <= root.key
      THEN IF root.left.kind = "None" THEN NotFound ELSE search_le(search_key, root.left)
      ELSE IF root.right.kind = "None" THEN NotFound ELSE search_le(search_key, root.right)

RECURSIVE search(_, _)
search(search_key, root) ==
  IF root.kind = "Leaf"
    THEN IF root.key = search_key THEN <<root.key, root.value>> ELSE NotFound
    ELSE IF search_key < root.key
      THEN IF root.left.kind = "None" THEN NotFound ELSE search(search_key, root.left)
      ELSE IF root.right.kind = "None" THEN NotFound ELSE search(search_key, root.right)

(* ------------------------------------------------------------------ *)
(* Handler bodies, from the state of the slot under the guard           *)
(* ------------------------------------------------------------------ *)
\* IAVL::insert after write().unwrap(): root_guard.take(), then the store
IAVL_insert(slot, new_key, new_value, ver) ==
  IF slot.kind = "None"
    THEN new_leaf(new_key, new_value, ver)
    ELSE insert(slot, new_key, new_value, ver)

\* native_loader::create_loadable_account_with_fields(name, (5000, 0))
create_loadable_account_with_fields(name) ==
  [lamports |-> BuiltinLamports, owner |-> NativeLoaderId, data |-> name]

\* add_builtin_account that drops the tree it took and stores the new Leaf alone
add_builtin_account_alone(slot, account_data, program_id, ver) ==
  new_leaf(program_id, account_data, ver)

\* add_builtin_account after write().unwrap(), account_data already built
add_builtin_account(slot, account_data, program_id, ver) ==
  IF slot.kind # "None"
    THEN insert(slot, program_id, account_data, ver)
    ELSE new_leaf(program_id, account_data, ver)

\* save_tree that hashes an empty slot like an Inner node without children
save_tree_empty_hashed(slot) ==
  IF slot.kind = "None"
    THEN [node |-> None, h |-> Sha3(Zero32, Zero32)]
    ELSE update_hash(slot)

\* IAVL::save_tree after write().unwrap()
save_tree(slot) ==
  IF slot.kind = "None"
    THEN [node |-> None, h |-> Zero32]
    ELSE update_hash(slot)

\* get_account_shared_data after read().unwrap(): Option<AccountSharedData>
get_account_shared_data(slot, pubkey) ==
  IF slot.kind = "None" THEN NotFound
  ELSE LET f == search(pubkey, slot) IN
       IF f = NotFound THEN NotFound ELSE <<f[2]>>

\* owners.iter().position(|entry| data.1.owner() == entry): Option<usize>
position(owners, owner) ==
  IF \E i \in 1..Len(owners) : owners[i] = owner
    THEN <<(CHOOSE i \in 1..Len(owners) :
              owners[i] = owner /\ \A j \in 1..(i - 1) : owners[j] # owner) - 1>>
    ELSE NotFound

\* account_matches_owners after read().unwrap(): Option<usize>
account_matches_owners(slot, account, owners) ==
  IF slot.kind = "None" THEN NotFound
  ELSE LET f == search(account, slot) IN
       IF f = NotFound THEN NotFound
       ELSE IF f[2].lamports = 0 THEN NotFound
       ELSE position(owners, f[2].owner)

(* ------------------------------------------------------------------ *)
(* State                                                                *)
(* ------------------------------------------------------------------ *)
VARIABLES
  root,      \* the Option<Box<Node>> inside the RwLock
  version,   \* IAVL.version
  poisoned,  \* the RwLock's poison flag
  count,     \* history: number of completed inserts (insert, add_builtin_account)
  latest,    \* history: per key, the value of its most recent insert
  twin,      \* history: a tree built by the same inserts, never given to save_tree
  matched,   \* history: n when the inserted keys so far are the first n of Scenario, else -1
  lastCall,  \* history: the most recently completed call and what it returned
  lock,      \* the RwLock: the thread holding it exclusively, the threads sharing it
  threads,   \* per thread: where it is in its call, the call, the root it took
  calls      \* history: number of calls started by the threads

vars == <<root, version, poisoned, count, latest, twin, matched, lastCall,
          lock, threads, calls>>

Threads == {1, 2}

NoThread == 0

IdleThread == [pc |-> "idle", op |-> "none", local |-> None]

Unit == <<"unit">>

\* scenario 5 of the specification: the keys 3, 1, 2 in this order
Scenario == <<3, 1, 2>>

Init ==
  /\ root = None
  /\ version = 0
  /\ poisoned = FALSE
  /\ count = 0
  /\ latest = [k \in Keys |-> NotFound]
  /\ twin = None
  /\ matched = 0
  /\ lastCall = [op |-> "new", ret |-> Unit]
  /\ lock = [writer |-> NoThread, readers |-> {}]
  /\ threads = [t \in Threads |-> IdleThread]
  /\ calls = 0

\* the history variables after an insert of <<k, v>> has been stored
Recorded(k, v) ==
  /\ count' = count + 1
  /\ latest' = [latest EXCEPT ![k] = <<v>>]
  /\ twin' = IAVL_insert(twin, k, v, version)
  /\ matched' = IF matched >= 0 /\ matched < Len(Scenario) /\ Scenario[matched + 1] = k
                  THEN matched + 1 ELSE -1

(* ------------------------------------------------------------------ *)
(* One caller: every handler runs from lock acquisition to guard drop   *)
(* ------------------------------------------------------------------ *)
\* LockResult::unwrap: the call goes on unless the lock is poisoned
unwrap_recover(isPoisoned) == TRUE

unwrap_ok(isPoisoned) == ~isPoisoned

\* .write().unwrap() / .read().unwrap() on a poisoned lock panics
FailedCall(name) ==
  /\ lastCall' = [op |-> name, ret |-> Panic]
  /\ UNCHANGED <<root, version, poisoned, count, latest, twin, matched>>

\* the store of a write handler: `new` is what it computed from the taken root;
\* a panic unwinds with the slot still empty and poisons the lock
StoreRoot(name, new, k, v) ==
  IF new.kind = "Panic"
    THEN /\ root' = None
         /\ poisoned' = TRUE
         /\ lastCall' = [op |-> name, ret |-> Panic]
         /\ UNCHANGED <<version, count, latest, twin, matched>>
    ELSE /\ root' = new
         /\ Recorded(k, v)
         /\ lastCall' = [op |-> name, ret |-> Unit]
         /\ UNCHANGED <<version, poisoned>>

Insert(k, v) ==
  /\ count < MaxInserts
  /\ UNCHANGED <<lock, threads, calls>>
  /\ IF ~unwrap_ok(poisoned)
       THEN FailedCall("insert")
       ELSE StoreRoot("insert", IAVL_insert(root, k, v, version), k, v)

AddBuiltinAccount(name, k) ==
  /\ count < MaxInserts
  /\ UNCHANGED <<lock, threads, calls>>
  /\ LET account_data == create_loadable_account_with_fields(name) IN
     IF ~unwrap_ok(poisoned)
       THEN FailedCall("add_builtin_account")
       ELSE StoreRoot("add_builtin_account",
                      add_builtin_account(root, account_data, k, version),
                      k, account_data)

SaveTree ==
  /\ UNCHANGED <<lock, threads, calls>>
  /\ IF ~unwrap_ok(poisoned)
       THEN FailedCall("save_tree")
       ELSE /\ LET r == save_tree(root) IN
               /\ root' = r.node
               /\ lastCall' = [op |-> "save_tree", ret |-> r.h]
            /\ UNCHANGED <<version, poisoned, count, latest, twin, matched>>

GetAccountSharedData(k) ==
  /\ UNCHANGED <<lock, threads, calls>>
  /\ IF ~unwrap_ok(poisoned)
       THEN FailedCall("get_account_shared_data")
       ELSE /\ lastCall' = [op |-> "get_account_shared_data",
                            ret |-> get_account_shared_data(root, k)]
            /\ UNCHANGED <<root, version, poisoned, count, latest, twin, matched>>

AccountMatchesOwners(k, owners) ==
  /\ UNCHANGED <<lock, threads, calls>>
  /\ IF ~unwrap_ok(poisoned)
       THEN FailedCall("account_matches_owners")
       ELSE /\ lastCall' = [op |-> "account_matches_owners",
                            ret |-> account_matches_owners(root, k, owners)]
            /\ UNCHANGED <<root, version, poisoned, count, latest, twin, matched>>

Next ==
  \/ \E k \in Keys, v \in Accounts : Insert(k, v)
  \/ \E n \in Names, k \in Keys : AddBuiltinAccount(n, k)
  \/ SaveTree
  \/ \E k \in Keys : GetAccountSharedData(k)
  \/ \E k \in Keys, o \in OwnerLists : AccountMatchesOwners(k, o)

Spec == Init /\ [][Next]_vars

(* ------------------------------------------------------------------ *)
(* Threads sharing the root through clones of the handle                *)
(* ------------------------------------------------------------------ *)
MaxCalls == 6

WriteOps == {"insert", "add_builtin_account", "save_tree"}

ReadOps == {"get_account_shared_data", "account_matches_owners"}

\* the lock mode the comment on save_tree announces ("Acquire a read lock")
LockMode_as_commented(op) ==
  IF op \in {"insert", "add_builtin_account"} THEN "write" ELSE "read"

\* self.root.write() in insert, add_builtin_account, save_tree; self.root.read()
\* in the two lookups
LockMode(op) ==
  IF op \in WriteOps THEN "write" ELSE "read"

\* RwLock::read that does not wait for the writer
CanRead_any(l) == TRUE

\* RwLock::read returns once no thread holds the lock exclusively
CanRead(l) == l.writer = NoThread

\* RwLock::write returns once no thread holds the lock in any mode
CanWrite(l) == l.writer = NoThread /\ l.readers = {}

Acquired(l, t, mode) ==
  IF mode = "write" THEN [l EXCEPT !.writer = t]
                    ELSE [l EXCEPT !.readers = @ \cup {t}]

\* dropping the guard
Released(l, t) ==
  [writer |-> IF l.writer = t THEN NoThread ELSE l.writer,
   readers |-> l.readers \ {t}]

\* self.root.write().unwrap() / self.root.read().unwrap(): blocks while the lock
\* is not available, panics when it is poisoned
Lock(t, op) ==
  /\ threads[t].pc = "idle"
  /\ calls < MaxCalls
  /\ op \in {"insert", "add_builtin_account"} => count < MaxInserts
  /\ IF LockMode(op) = "write" THEN CanWrite(lock) ELSE CanRead(lock)
  /\ calls' = calls + 1
  /\ IF unwrap_ok(poisoned)
       THEN /\ lock' = Acquired(lock, t, LockMode(op))
            /\ threads' = [threads EXCEPT ![t] = [pc |-> "locked", op |-> op,
                                                  local |-> None]]
            /\ UNCHANGED lastCall
       ELSE /\ lastCall' = [op |-> op, ret |-> Panic]
            /\ UNCHANGED <<lock, threads>>
  /\ UNCHANGED <<root, version, poisoned, count, latest, twin, matched>>

\* root_guard.take() / root.take(): the slot is empty until the store
Take(t) ==
  /\ threads[t].pc = "locked"
  /\ threads[t].op \in {"insert", "add_builtin_account"}
  /\ root' = None
  /\ threads' = [threads EXCEPT ![t].pc = "taken", ![t].local = root]
  /\ UNCHANGED <<version, poisoned, count, latest, twin, matched, lastCall, lock, calls>>

\* *root_guard = Some(..) and the drop of the guard at the end of the handler;
\* a panic in Node::insert unwinds with the slot empty and poisons the lock
StoreAndUnlock(t, new, k, v) ==
  /\ lock' = Released(lock, t)
  /\ threads' = [threads EXCEPT ![t] = IdleThread]
  /\ IF new.kind = "Panic"
       THEN /\ poisoned' = TRUE
            /\ lastCall' = [op |-> threads[t].op, ret |-> Panic]
            /\ UNCHANGED <<root, version, count, latest, twin, matched, calls>>
       ELSE /\ root' = new
            /\ Recorded(k, v)
            /\ lastCall' = [op |-> threads[t].op, ret |-> Unit]
            /\ UNCHANGED <<version, poisoned, calls>>

InsertStore(t, k, v) ==
  /\ threads[t].pc = "taken"
  /\ threads[t].op = "insert"
  /\ StoreAndUnlock(t, IAVL_insert(threads[t].local, k, v, version), k, v)

AddBuiltinStore(t, name, k) ==
  /\ threads[t].pc = "taken"
  /\ threads[t].op = "add_builtin_account"
  /\ LET account_data == create_loadable_account_with_fields(name) IN
     StoreAndUnlock(t, add_builtin_account(threads[t].local, account_data, k, version),
                    k, account_data)

\* save_tree under its guard: Node::update_hash in place, then the drop
SaveTreeUnlock(t) ==
  /\ threads[t].pc = "locked"
  /\ threads[t].op = "save_tree"
  /\ LET r == save_tree(root) IN
     /\ root' = r.node
     /\ lastCall' = [op |-> "save_tree", ret |-> r.h]
  /\ lock' = Released(lock, t)
  /\ threads' = [threads EXCEPT ![t] = IdleThread]
  /\ UNCHANGED <<version, poisoned, count, latest, twin, matched, calls>>

\* a lookup under its guard: Node::search from the slot, then the drop
GetUnlock(t, k) ==
  /\ threads[t].pc = "locked"
  /\ threads[t].op = "get_account_shared_data"
  /\ lastCall' = [op |-> "get_account_shared_data",
                  ret |-> get_account_shared_data(root, k)]
  /\ lock' = Released(lock, t)
  /\ threads' = [threads EXCEPT ![t] = IdleThread]
  /\ UNCHANGED <<root, version, poisoned, count, latest, twin, matched, calls>>

MatchesUnlock(t, k, owners) ==
  /\ threads[t].pc = "locked"
  /\ threads[t].op = "account_matches_owners"
  /\ lastCall' = [op |-> "account_matches_owners",
                  ret |-> account_matches_owners(root, k, owners)]
  /\ lock' = Released(lock, t)
  /\ threads' = [threads EXCEPT ![t] = IdleThread]
  /\ UNCHANGED <<root, version, poisoned, count, latest, twin, matched, calls>>

\* the thread panics while it holds the write guard (a panicking Ord of K, a
\* failed unwrap): unwinding drops the guard, which poisons the lock; what the
\* slot holds at that moment stays
Abort(t) ==
  /\ threads[t].pc \in {"locked", "taken"}
  /\ lock.writer = t
  /\ poisoned' = TRUE
  /\ lastCall' = [op |-> threads[t].op, ret |-> Panic]
  /\ lock' = Released(lock, t)
  /\ threads' = [threads EXCEPT ![t] = IdleThread]
  /\ UNCHANGED <<root, version, count, latest, twin, matched, calls>>

NextThreads ==
  \/ \E t \in Threads, op \in WriteOps \cup ReadOps : Lock(t, op)
  \/ \E t \in Threads : Take(t)
  \/ \E t \in Threads, k \in Keys, v \in Accounts : InsertStore(t, k, v)
  \/ \E t \in Threads, n \in Names, k \in Keys : AddBuiltinStore(t, n, k)
  \/ \E t \in Threads : SaveTreeUnlock(t)
  \/ \E t \in Threads, k \in Keys : GetUnlock(t, k)
  \/ \E t \in Threads, k \in Keys, o \in OwnerLists : MatchesUnlock(t, k, o)
  \/ \E t \in Threads : Abort(t)

SpecThreads == Init /\ [][NextThreads]_vars

(* ------------------------------------------------------------------ *)
(* Vocabulary of the properties                                         *)
(* ------------------------------------------------------------------ *)
\* every node of a tree (the tree itself included); None has none
RECURSIVE Nodes(_)
Nodes(t) ==
  IF t.kind = "Inner" THEN {t} \cup Nodes(t.left) \cup Nodes(t.right)
  ELSE IF t.kind = "Leaf" THEN {t}
  ELSE {}

Branches(t) == {n \in Nodes(t) : n.kind = "Inner"}

\* the Leaf nodes of a tree, left to right
RECURSIVE LeafSeq(_)
LeafSeq(t) ==
  IF t.kind = "Inner" THEN LeafSeq(t.left) \o LeafSeq(t.right)
  ELSE IF t.kind = "Leaf" THEN <<t>>
  ELSE <<>>

LeafKeys(t) == {LeafSeq(t)[i].key : i \in 1..Len(LeafSeq(t))}

\* height by definition: Leaf and absent child 0, Inner 1 + max of the children
RECURSIVE TrueHeight(_)
TrueHeight(t) ==
  IF t.kind = "Inner" THEN 1 + Max(TrueHeight(t.left), TrueHeight(t.right)) ELSE 0

\* c is an Inner child of the Inner node p, both carry a cached hash, and p's
\* cached hash was not computed over c: c became p's child after the hashes
\* were cached, which only a rotation does (insert hangs only unhashed nodes)
MovedUnder(p, c) ==
  /\ p.kind = "Inner" /\ p.hash # NoHash
  /\ c.kind = "Inner" /\ c.hash # NoHash
  /\ c \in {p.left, p.right}
  /\ c.hash[1] # p.hash[1][2]
  /\ c.hash[1] # p.hash[1][3]

RotatedSinceSave(t) == \E p \in Branches(t) : \E c \in Branches(t) : MovedUnder(p, c)

(* ------------------------------------------------------------------ *)
(* C1: after every insert, every Branch of the tree has balance factor  *)
(* height(left) - height(right) in {-1, 0, 1}.                          *)
(* ------------------------------------------------------------------ *)
BalanceFactor(b) == TrueHeight(b.left) - TrueHeight(b.right)

C1_Balanced ==
  \A b \in Branches(root) : BalanceFactor(b) \in {-1, 0, 1}

\* the fourth insert has rotated: four entries at height 2
C1_Witness ==
  /\ count = 4
  /\ lastCall.op = "insert"
  /\ RotatedSinceSave(root)
  /\ TrueHeight(root) = 2

(* ------------------------------------------------------------------ *)
(* C2: a search for a key inserted at least once returns the value of   *)
(* the most recent insert of that key; a search for a key never         *)
(* inserted reports absence.                                            *)
(* ------------------------------------------------------------------ *)
C2_SearchLatest ==
  ~poisoned => \A k \in Keys : get_account_shared_data(root, k) = latest[k]

\* the Leaf nodes with key k, oldest first
LeavesOf(t, k) == SelectSeq(LeafSeq(t), LAMBDA l : l.key = k)

\* a key inserted twice with different values, a rotation afterwards, another
\* key never inserted, and a search that returned the newer value
C2_Witness ==
  /\ RotatedSinceSave(root)
  /\ lastCall.op = "get_account_shared_data"
  /\ \E k \in Keys :
       /\ Len(LeavesOf(root, k)) >= 2
       /\ LeavesOf(root, k)[1].value # LeavesOf(root, k)[2].value
       /\ lastCall.ret = <<LeavesOf(root, k)[Len(LeavesOf(root, k))].value>>
       /\ lastCall.ret = latest[k]
       /\ \A j \in Keys \ {k} : lastCall.ret # latest[j]
  /\ \E k \in Keys : latest[k] = NotFound

(* ------------------------------------------------------------------ *)
(* C3 as stated: for every Branch, every Leaf key in its left subtree   *)
(* is strictly less than the boundary key and every Leaf key in its     *)
(* right subtree is greater than or equal to it.                        *)
(* ------------------------------------------------------------------ *)
C3_StrictOrdering ==
  \A b \in Branches(root) :
    /\ \A k \in LeafKeys(b.left) : k < b.key
    /\ \A k \in LeafKeys(b.right) : k >= b.key

(* C3 amended: every Leaf key in the left subtree is less than or equal  *)
(* to the boundary key, and equal only when a Leaf with the same key     *)
(* lies in the right subtree (the left one is superseded); every Leaf   *)
(* key in the right subtree is greater than or equal to the boundary.   *)
C3_Ordering ==
  \A b \in Branches(root) :
    /\ \A k \in LeafKeys(b.left) : k < b.key \/ (k = b.key /\ k \in LeafKeys(b.right))
    /\ \A k \in LeafKeys(b.right) : k >= b.key

\* a key present twice, on both sides of a Branch, after a rotation
C3_Witness ==
  /\ RotatedSinceSave(root)
  /\ \E b \in Branches(root) :
       /\ b.key \in LeafKeys(b.left)
       /\ \E k \in LeafKeys(b.left) : k < b.key

(* ------------------------------------------------------------------ *)
(* C5 as stated: save_tree sets each Leaf's hash to H(key, value,       *)
(* version) of that Leaf's own content.                                 *)
(* ------------------------------------------------------------------ *)
\* the content-binding leaf digest the specification asks for
LeafDigest(key, value, ver) == <<"H", key, value, ver>>

C5_LeafDigestBindsContent ==
  (lastCall.op = "save_tree" /\ ~poisoned) =>
    \A i \in 1..Len(LeafSeq(root)) :
      LET l == LeafSeq(root)[i] IN
      l.hash = SomeHash(LeafDigest(l.key, l.value, l.version))

(* ------------------------------------------------------------------ *)
(* C8: the root digest is deterministic: save_tree called again with no *)
(* insert in between returns what it returned before, and it returns    *)
(* the digest of a tree built by the same inserts on which save_tree    *)
(* was never called, however many save_tree calls came earlier.         *)
(* ------------------------------------------------------------------ *)
C8_DigestDeterministic ==
  ~poisoned =>
    /\ save_tree(root).h = save_tree(twin).h
    /\ lastCall.op = "save_tree" => save_tree(root).h = lastCall.ret

\* the tree holds hashes cached by an earlier save_tree, a rotation has moved
\* nodes carrying them, and the cached root hash is not the digest any more
C8_Witness ==
  /\ RotatedSinceSave(root)
  /\ root.hash # NoHash
  /\ root.hash[1] # save_tree(root).h
  /\ twin.hash = NoHash
  /\ save_tree(root).h = save_tree(twin).h

(* ------------------------------------------------------------------ *)
(* C9: re-inserting a key already present with a different value makes  *)
(* save_tree return a root digest different from the one it returned    *)
(* just before the re-insertion, and a search for the key then returns  *)
(* the new value.                                                       *)
(* ------------------------------------------------------------------ *)
C9_ReinsertChangesDigest ==
  [][\A k \in Keys :
       (latest[k] # NotFound /\ latest'[k] # latest[k]) =>
         /\ save_tree(root').h # save_tree(root).h
         /\ get_account_shared_data(root', k) = latest'[k]]_vars

\* a key holds two values, the newer one is found, and save_tree has returned
\* the digest of the tree after the re-insertion
C9_Witness ==
  /\ lastCall.op = "save_tree"
  /\ lastCall.ret # Zero32
  /\ \E k \in Keys :
       /\ Len(LeavesOf(root, k)) = 2
       /\ LeavesOf(root, k)[1].value # LeavesOf(root, k)[2].value
       /\ get_account_shared_data(root, k) = <<LeavesOf(root, k)[2].value>>

(* ------------------------------------------------------------------ *)
(* C10 as stated: inserting the keys 3, 1, 2 in this order into an      *)
(* empty tree yields a root Branch with boundary key 2 whose left child *)
(* holds key 1 and whose right child holds key 3.                       *)
(* ------------------------------------------------------------------ *)
C10_RotatedForm ==
  matched = Len(Scenario) =>
    /\ root.kind = "Inner" /\ root.key = 2
    /\ root.left.kind \in {"Leaf", "Inner"} /\ root.left.key = 1
    /\ root.right.kind \in {"Leaf", "Inner"} /\ root.right.key = 3

(* C10 amended: inserting the keys 3, 1, 2 in this order into an empty  *)
(* tree rotates nothing: the root is a Branch with boundary key 3, its  *)
(* left child is a Branch with boundary key 2 over the Leaves 1 and 2,  *)
(* its right child is the Leaf 3, and the height is 2.                  *)
C10_Shape ==
  matched = Len(Scenario) =>
    /\ root.kind = "Inner" /\ root.key = 3 /\ root.height = 2
    /\ root.left.kind = "Inner" /\ root.left.key = 2 /\ root.left.height = 1
    /\ root.left.left.kind = "Leaf" /\ root.left.left.key = 1
    /\ root.left.right.kind = "Leaf" /\ root.left.right.key = 2
    /\ root.right.kind = "Leaf" /\ root.right.key = 3

\* the three inserts of the scenario have been made
C10_Witness ==
  /\ matched = Len(Scenario)
  /\ count = 3
  /\ [i \in 1..3 |-> LeafSeq(root)[i].key] = <<1, 2, 3>>

(* ------------------------------------------------------------------ *)
(* C4: a lookup running concurrently with inserts observes a complete   *)
(* tree, the one before or the one after an insert: while a thread      *)
(* holds the read guard the slot holds exactly the tree of the inserts  *)
(* completed so far, never the empty slot of a running insert.          *)
(* ------------------------------------------------------------------ *)
\* a tree without its cached hashes
RECURSIVE Strip(_)
Strip(t) ==
  IF t.kind = "Inner"
    THEN [t EXCEPT !.hash = NoHash, !.left = Strip(t.left), !.right = Strip(t.right)]
  ELSE IF t.kind = "Leaf" THEN [t EXCEPT !.hash = NoHash]
  ELSE t

Reading(t) == threads[t].pc = "locked" /\ threads[t].op \in ReadOps

Writing(t) == threads[t].pc \in {"locked", "taken"} /\ threads[t].op \in WriteOps

C4_ReaderSeesCompleteTree ==
  \A t \in Threads : Reading(t) => Strip(root) = twin

\* a lookup holds the read guard right after an insert that rotated has stored
C4_Witness ==
  /\ \E t \in Threads : Reading(t)
  /\ lastCall.op = "insert"
  /\ RotatedSinceSave(root)
  /\ count = 4

(* ------------------------------------------------------------------ *)
(* C6: once a thread has panicked while holding the write guard (the    *)
(* lock is poisoned, the slot possibly left empty), every call that     *)
(* completes afterwards fails, and no thread is inside a handler.       *)
(* ------------------------------------------------------------------ *)
C6_PoisonedFailsAll ==
  [][poisoned =>
       /\ lastCall' # lastCall => lastCall'.ret = Panic
       /\ \A t \in Threads : threads'[t].pc = "idle"
       /\ root' = root /\ poisoned']_vars

\* a writer panicked between take() and the store of an insert into a non-empty
\* tree, the slot stayed empty, and a later lookup failed
C6_Witness ==
  /\ poisoned
  /\ root = None
  /\ count >= 1
  /\ lastCall = [op |-> "get_account_shared_data", ret |-> Panic]

HeightBound(n) == <<2, 3, 3, 4, 4, 5, 5, 5, 5, 5, 6, 6>>[n]

\* the tree IAVL::insert builds from the empty slot out of a sequence of keys
RECURSIVE InsertAll(_, _)
InsertAll(slot, keys) ==
  IF keys = <<>> THEN slot
  ELSE InsertAll(IAVL_insert(slot, Head(keys), CHOOSE a \in Accounts : TRUE, 0),
                 Tail(keys))

MixedOrder == <<5, 3, 8, 1, 4, 7, 9, 2, 6, 0>>
Ascending == <<0, 1, 2, 3, 4, 5, 6, 7, 8, 9>>
Descending == <<9, 8, 7, 6, 5, 4, 3, 2, 1, 0>>

\* the fixed orders, each prefix of them against the bound
FixedOrdersBounded ==
  \A order \in {MixedOrder, Ascending, Descending} :
    \A n \in 1..Len(order) :
      TrueHeight(InsertAll(None, SubSeq(order, 1, n))) <= HeightBound(n)

MixedHeight == TrueHeight(InsertAll(None, MixedOrder))

\* the fixed orders are runs from the empty tree and are settled there; every
\* tree the bounded runs reach is held against the bound of its insert count
C11_HeightBound ==
  IF count = 0
    THEN MixedHeight <= 4 /\ FixedOrdersBounded
    ELSE ~poisoned => TrueHeight(root) <= HeightBound(count)

\* four ascending inserts: the chain an unbalanced tree would form has height 3
C11_Witness ==
  /\ count = 4
  /\ LeafKeys(root) = {1, 2, 3}
  /\ TrueHeight(root) = 2

(* ------------------------------------------------------------------ *)
(* C12: every insert, also of a key already present, adds exactly one   *)
(* new Leaf and leaves every Leaf that existed before in the tree with  *)
(* its key, value and version unchanged; after n inserts the tree holds *)
(* exactly n Leaf nodes.                                                *)
(* ------------------------------------------------------------------ *)
RemoveAt(s, i) == SubSeq(s, 1, i - 1) \o SubSeq(s, i + 1, Len(s))

\* key, value and version of the Leaf nodes, left to right
RECURSIVE LeafEntries(_)
LeafEntries(t) ==
  IF t.kind = "Inner" THEN LeafEntries(t.left) \o LeafEntries(t.right)
  ELSE IF t.kind = "Leaf"
    THEN <<[key |-> t.key, value |-> t.value, version |-> t.version]>>
  ELSE <<>>

C12_InsertOnlyAdds ==
  [][/\ ~poisoned' => Len(LeafSeq(root')) = count'
     /\ (count' = count + 1) =>
          \E i \in 1..Len(LeafSeq(root')) :
            /\ RemoveAt(LeafEntries(root'), i) = LeafEntries(root)
            /\ <<LeafEntries(root')[i].value>> = latest'[LeafEntries(root')[i].key]]_vars

\* one key inserted three times, with two different values: three Leaf nodes
C12_Witness ==
  /\ count = 3
  /\ Cardinality(LeafKeys(root)) = 1
  /\ Len(LeafSeq(root)) = 3
  /\ \E i, j \in 1..3 : LeafSeq(root)[i].value # LeafSeq(root)[j].value

(* ------------------------------------------------------------------ *)
(* C13: the handle made by new() has version 0, no operation (insert,   *)
(* lookup, save_tree, add_builtin_account) changes it, and every Leaf   *)
(* and Inner node of the tree carries version 0, however many inserts   *)
(* were made.                                                           *)
(* ------------------------------------------------------------------ *)
C13_VersionZero ==
  /\ version = 0
  /\ \A n \in Nodes(root) : n.version = 0

\* inserts of both kinds, a save_tree and a later rotation: the stamps are still 0
C13_Witness ==
  /\ count = MaxInserts
  /\ \E k \in Keys : latest[k] # NotFound /\ latest[k][1].owner = NativeLoaderId
  /\ \E k \in Keys : latest[k] # NotFound /\ latest[k][1].owner # NativeLoaderId
  /\ RotatedSinceSave(root)
  /\ version = 0
  /\ \A n \in Nodes(root) : n.version = 0

(* ------------------------------------------------------------------ *)
(* C14: save_tree on an empty tree returns the all-zero placeholder     *)
(* digest and leaves the tree empty.                                    *)
(* ------------------------------------------------------------------ *)
\* no insert has completed, so the slot was empty when save_tree ran
C14_EmptySave ==
  (lastCall.op = "save_tree" /\ count = 0) =>
     (root = None /\ lastCall.ret = Zero32)

C14_Witness ==
  /\ lastCall = [op |-> "save_tree", ret |-> Zero32]
  /\ count = 0
  /\ root = None

(* ------------------------------------------------------------------ *)
(* C15: no sequence of inserts from the empty tree reaches a fatal      *)
(* internal error: balance sees no height difference outside [-2, 2],   *)
(* no rotation is applied to a Leaf, and the heavy child a rotation     *)
(* takes is present and is an Inner node, so no unreachable!() or       *)
(* unwrap() of balance and the four rotations is hit.                   *)
(* ------------------------------------------------------------------ *)
\* an Inner node not yet hashed above two Inner nodes hashed before: insert hangs
\* a new Inner node only above two Leaf nodes, a single rotation lifts a node
\* above one former ancestor, so this one was lifted above two by a double rotation
DoubleRotatedSinceSave(t) ==
  \E p \in Branches(t) :
    /\ p.hash = NoHash
    /\ p.left.kind = "Inner" /\ p.left.hash # NoHash
    /\ p.right.kind = "Inner" /\ p.right.hash # NoHash

\* no call has panicked (a panic under the write guard poisons the lock), and the
\* next insert of any key does not either
C15_NoFatalError ==
  /\ ~poisoned
  /\ \A k \in Keys : \A a \in Accounts :
       IAVL_insert(root, k, a, version).kind # "Panic"

C15_Witness ==
  /\ ~poisoned
  /\ lastCall = [op |-> "insert", ret |-> Unit]
  /\ DoubleRotatedSinceSave(root)

(* ------------------------------------------------------------------ *)
(* C16: after every insert the cached height of every Inner node, the   *)
(* nodes moved by a rotation included, is 1 + the larger of the heights *)
(* of its children, a Leaf or absent child counting 0.                  *)
(* ------------------------------------------------------------------ *)
C16_CachedHeightExact ==
  \A b \in Branches(root) :
    /\ b.height = 1 + Max(height(b.left), height(b.right))
    /\ b.height = TrueHeight(b)

\* after a double rotation: the lifted node and both nodes now under it
C16_Witness ==
  /\ DoubleRotatedSinceSave(root)
  /\ root.height = 2
  /\ root.left.height = 1 /\ root.right.height = 1
  /\ TrueHeight(root) = 2

(* ------------------------------------------------------------------ *)
(* C17: save_tree changes nothing but cached hash fields: shape, keys,  *)
(* values, version stamps, cached heights and the handle version are as *)
(* before and every lookup answers as before; insert in turn neither    *)
(* computes nor clears a cached hash.                                   *)
(* ------------------------------------------------------------------ *)
\* the nodes of a tree in left-to-right order (a rotation keeps this order),
\* each without its children and its cached height
RECURSIVE InOrder(_)
InOrder(t) ==
  IF t.kind = "Inner"
    THEN InOrder(t.left)
         \o <<[kind |-> "Inner", key |-> t.key, version |-> t.version, hash |-> t.hash]>>
         \o InOrder(t.right)
  ELSE IF t.kind = "Leaf" THEN <<t>>
  ELSE <<>>

IsHashed(n) == n.hash # NoHash

\* the nodes that carry a cached hash, with that hash, in left-to-right order
Hashed(t) == SelectSeq(InOrder(t), IsHashed)

\* a step that completes no insert is a save_tree or a lookup; a step that
\* completes one is an insert or an add_builtin_account
C17_SaveTouchesOnlyHashes ==
  [][/\ (count' = count) =>
          /\ Strip(root') = Strip(root)
          /\ version' = version
          /\ \A k \in Keys :
               get_account_shared_data(root', k) = get_account_shared_data(root, k)
     /\ (count' = count + 1) => Hashed(root') = Hashed(root)]_vars

\* hashes cached by a save_tree survive a later insert with its rotation, and but
\* for the hashes the tree is the one the inserts alone build
C17_Witness ==
  /\ count = MaxInserts
  /\ lastCall.op = "insert"
  /\ RotatedSinceSave(root)
  /\ Strip(root) = twin
  /\ Len(Hashed(root)) = 5

(* ------------------------------------------------------------------ *)
(* C18: add_builtin_account(name, key) leaves the shared root in        *)
(* exactly the state insert(key, v) produces from the same state, v     *)
(* being the account the builtin factory makes for name, and it does so *)
(* holding the lock exclusively.                                        *)
(* ------------------------------------------------------------------ *)
\* thread t is between root.take() and the store of an add_builtin_account
StoringBuiltin(t) ==
  threads[t].pc = "taken" /\ threads[t].op = "add_builtin_account"

\* the step on which such a thread stores: the slot then holds what IAVL::insert
\* makes of the tree taken, for the key and the factory account just recorded
C18_BuiltinIsInsert ==
  [][\A t \in Threads :
       (StoringBuiltin(t) /\ threads'[t].pc = "idle" /\ count' = count + 1) =>
         /\ lock.writer = t /\ lock.readers = {}
         /\ \A u \in Threads \ {t} : threads[u].pc = "idle"
         /\ \E k \in Keys : \E name \in Names :
              LET v == create_loadable_account_with_fields(name) IN
              /\ latest'[k] = <<v>>
              /\ root' = IAVL_insert(threads[t].local, k, v, version)
              /\ Strip(root') = twin']_vars

\* a builtin account was stored into a tree that a rotation then rebalanced
C18_Witness ==
  /\ lastCall.op = "add_builtin_account"
  /\ ~poisoned
  /\ count = MaxInserts
  /\ RotatedSinceSave(root)
  /\ \A t \in Threads : threads[t].pc = "idle"

(* ------------------------------------------------------------------ *)
(* C19: after any sequence of inserts every Inner node in the root slot *)
(* has both children present, a non-empty tree of n Leaf nodes has      *)
(* exactly n - 1 Inner nodes, and update_hash never takes the [0; 32]   *)
(* stand-in for a missing child.                                        *)
(* ------------------------------------------------------------------ *)
\* the number of Inner nodes, equal subtrees counted each
RECURSIVE InnerCount(_)
InnerCount(t) ==
  IF t.kind = "Inner" THEN 1 + InnerCount(t.left) + InnerCount(t.right) ELSE 0

\* update_hash reaches a None child somewhere in the tree
RECURSIVE TakesPlaceholder(_)
TakesPlaceholder(t) ==
  /\ t.kind = "Inner"
  /\ \/ t.left.kind = "None"
     \/ t.right.kind = "None"
     \/ TakesPlaceholder(t.left)
     \/ TakesPlaceholder(t.right)

C19_FullBranches ==
  /\ \A b \in Branches(root) : b.left.kind # "None" /\ b.right.kind # "None"
  /\ root.kind # "None" => InnerCount(root) = Len(LeafSeq(root)) - 1
  /\ ~TakesPlaceholder(root)

\* four Leaf nodes under three Inner nodes, two of these equal as subtrees
C19_Witness ==
  /\ count = 4
  /\ InnerCount(root) = 3
  /\ Cardinality(Branches(root)) < 3
  /\ TrueHeight(root) = 2

(* ------------------------------------------------------------------ *)
(* C20: after any sequence of inserts, duplicates included, the key of  *)
(* every Inner node equals the key of the leftmost Leaf of its right    *)
(* subtree and is greater than or equal to every Leaf key of its left   *)
(* subtree; the Leaf nodes from left to right are sorted by key in      *)
(* non-decreasing order, equal keys in insertion order, oldest first.   *)
(* ------------------------------------------------------------------ *)
\* the key of the leftmost Leaf of a subtree that has one
RECURSIVE LeftmostKey(_)
LeftmostKey(t) == IF t.kind = "Inner" THEN LeftmostKey(t.left) ELSE t.key

\* the key of the rightmost Leaf of a subtree that has one
RECURSIVE RightmostKey(_)
RightmostKey(t) == IF t.kind = "Inner" THEN RightmostKey(t.right) ELSE t.key

\* in every Inner node both subtrees are sorted, the left one ends at or below
\* the key of the node and the right one starts with it: the Leaf keys then run
\* in non-decreasing order from left to right
RECURSIVE BoundaryKeys(_)
BoundaryKeys(t) ==
  t.kind = "Inner" =>
    /\ t.left.kind # "None" /\ t.right.kind # "None"
    /\ t.key = LeftmostKey(t.right)
    /\ RightmostKey(t.left) <= t.key
    /\ BoundaryKeys(t.left)
    /\ BoundaryKeys(t.right)

SortedLeaves(s) == \A i \in 1..(Len(s) - 1) : s[i].key <= s[i + 1].key

\* the place of a new entry of key k: behind every entry of a key up to k
PlaceBehind(s, k) == 1 + Cardinality({j \in 1..Len(s) : s[j].key <= k})

\* every insert puts its Leaf behind every older Leaf of a smaller or equal key
\* and moves no other, which keeps the equal keys in insertion order
C20_BoundaryAndOrder ==
  [][(count' = count + 1) =>
       LET old == LeafEntries(root)
           new == LeafEntries(root')
       IN /\ BoundaryKeys(root')
          /\ SortedLeaves(new)
          /\ \E k \in Keys :
               LET i == PlaceBehind(old, k) IN
               /\ RemoveAt(new, i) = old
               /\ new[i].key = k
               /\ <<new[i].value>> = latest'[k]]_vars

\* three entries of one key and a smaller one, the newest entry of the key last
C20_Witness ==
  /\ count = 4
  /\ LeafKeys(root) = {1, 2}
  /\ LeafSeq(root)[1].key = 1
  /\ LeafSeq(root)[3].value # LeafSeq(root)[4].value
  /\ <<LeafSeq(root)[4].value>> = latest[2]
  /\ lastCall.op = "insert"
  /\ matched = -1
  /\ BoundaryKeys(root)

====
